---- MODULE Spec2Model ----
(***************************************************************************)
(* Model of streamlit_app.py: the session's sample list, the scan / clear  *)
(* / export handlers, the match loop, update_status and the row padding,   *)
(* plus the pure column-letter conversion _col_to_index.                   *)
(*                                                                         *)
(* Text is modelled as a sequence of one-character strings, so that        *)
(* str.strip() and ord()/upper() are computed rather than assumed.         *)
(* A table is a sequence of rows, a row a sequence of cells.               *)
(***************************************************************************)
EXTENDS Integers, Sequences, FiniteSets, TLC

VARIABLES samples, current_input, sheet,
          event, typed,
          fetched, selected_rows, lines_idx, today,
          norm_rows, calls, report, download,
          arg_col, ret_idx, pc_col

vars == <<samples, current_input, sheet, event, typed,
          fetched, selected_rows, lines_idx, today, norm_rows, calls, report, download,
          arg_col, ret_idx, pc_col>>

(* ------------------------------ bounds --------------------------------- *)
MaxRows == 3

(* --------------------------- configuration ----------------------------- *)
STATUS_COL == <<"A", "F">>
DATE_COL == <<"A", "G">>
ID_COL == <<"G">>
STATUS_VAL == <<"A","n","a","l","i","s","a","n","d","o"," ","A","m","o","s","t","r","a">>

(* ------------------------------- text ---------------------------------- *)
Whitespace == {" ", "\t"}

RECURSIVE lstrip(_)
lstrip(s) == IF s # <<>> /\ Head(s) \in Whitespace THEN lstrip(Tail(s)) ELSE s

RECURSIVE rstrip(_)
rstrip(s) ==
  IF s # <<>> /\ s[Len(s)] \in Whitespace THEN rstrip(SubSeq(s, 1, Len(s) - 1)) ELSE s

strip_keep(s) == s

strip(s) == rstrip(lstrip(s))

UpperLetters == <<"A","B","C","D","E","F","G","H","I","J","K","L","M",
                  "N","O","P","Q","R","S","T","U","V","W","X","Y","Z">>
LowerLetters == <<"a","b","c","d","e","f","g","h","i","j","k","l","m",
                  "n","o","p","q","r","s","t","u","v","w","x","y","z">>

upper(c) ==
  IF \E i \in 1..26 : LowerLetters[i] = c
  THEN UpperLetters[CHOOSE i \in 1..26 : LowerLetters[i] = c]
  ELSE c

ord(c) ==
  IF \E i \in 1..26 : UpperLetters[i] = c
  THEN 64 + (CHOOSE i \in 1..26 : UpperLetters[i] = c)
  ELSE 96 + (CHOOSE i \in 1..26 : LowerLetters[i] = c)

RECURSIVE col_loop_no_upper(_, _)
col_loop_no_upper(col, idx) ==
  IF col = <<>> THEN idx
  ELSE col_loop_no_upper(Tail(col), idx * 26 + (ord(Head(col)) - 64))

RECURSIVE col_loop(_, _)
col_loop(col, idx) ==
  IF col = <<>> THEN idx
  ELSE col_loop(Tail(col), idx * 26 + (ord(upper(Head(col))) - 64))

col_to_index_one_based(col) == col_loop(col, 0)

_col_to_index(col) == col_loop(col, 0) - 1

(* ------------------------------ helpers -------------------------------- *)
Range(s) == {s[i] : i \in 1..Len(s)}

Repeat(v, n) == [i \in 1..n |-> v]

SetCell(row, c, v) ==
  [j \in 1..(IF Len(row) > c THEN Len(row) ELSE c) |->
     IF j = c THEN v ELSE IF j <= Len(row) THEN row[j] ELSE <<>>]

Cell(row, c) == IF c <= Len(row) THEN row[c] ELSE <<>>

(* --------------------------- remote table ------------------------------ *)
\* Column ordinal (1-based) the remote resolves an A1 column name to.
A1Column(col) == col_loop(col, 0)

GetCall == [op |-> "get", col |-> <<>>, first |-> 0, last |-> 0, n |-> 0, failed |-> FALSE]

UpdateCall(col, rows_idx, values, failed) ==
  [op |-> "update", col |-> col, first |-> rows_idx[1], last |-> rows_idx[Len(rows_idx)],
   n |-> Len(values), failed |-> failed]

\* spreadsheets().values().update(range = col first : col last, body = values):
\* the i-th supplied row of values goes to the i-th line of the range.
values_update(table, col, first, last, values) ==
  [l \in 1..Len(table) |->
     IF l >= first /\ l <= last /\ l - first + 1 <= Len(values)
     THEN SetCell(table[l], A1Column(col), values[l - first + 1][1])
     ELSE table[l]]

fetch_sheet == sheet

(* --------------------------- update_status ----------------------------- *)
body_span(rows_idx, v) == Repeat(<<v>>, rows_idx[Len(rows_idx)] - rows_idx[1] + 1)

body_values(rows_idx, v) == Repeat(<<v>>, Len(rows_idx))

update_status_no_abort(table, rows_idx, now, fail) ==
  LET first == rows_idx[1]
      last == rows_idx[Len(rows_idx)]
      body_status == body_values(rows_idx, STATUS_VAL)
      body_date == body_values(rows_idx, now)
      t1 == IF fail = "status" THEN table
            ELSE values_update(table, STATUS_COL, first, last, body_status)
      t2 == IF fail = "date" THEN t1
            ELSE values_update(t1, DATE_COL, first, last, body_date)
  IN [table |-> t2,
      calls |-> <<UpdateCall(STATUS_COL, rows_idx, body_status, fail = "status"),
                  UpdateCall(DATE_COL, rows_idx, body_date, fail = "date")>>,
      ok |-> TRUE]

\* fail names the remote call that raises HttpError: "none", "status" or "date".
update_status(table, rows_idx, now, fail) ==
  LET first == rows_idx[1]
      last == rows_idx[Len(rows_idx)]
      body_status == body_values(rows_idx, STATUS_VAL)
      body_date == body_values(rows_idx, now)
      c1 == UpdateCall(STATUS_COL, rows_idx, body_status, fail = "status")
      c2 == UpdateCall(DATE_COL, rows_idx, body_date, fail = "date")
      t1 == values_update(table, STATUS_COL, first, last, body_status)
      t2 == values_update(t1, DATE_COL, first, last, body_date)
  IN IF fail = "status" THEN [table |-> table, calls |-> <<c1>>, ok |-> FALSE]
     ELSE IF fail = "date" THEN [table |-> t1, calls |-> <<c1, c2>>, ok |-> FALSE]
     ELSE [table |-> t2, calls |-> <<c1, c2>>, ok |-> TRUE]

(* ----------------------------- match loop ------------------------------ *)
sample_text_unstripped(row, g_idx) == IF g_idx < Len(row) THEN row[g_idx + 1] ELSE <<>>

sample_text(row, g_idx) == IF g_idx < Len(row) THEN strip(row[g_idx + 1]) ELSE <<>>

line_of_zero_based(k) == k

\* enumerate(data, start=2): the k-th data row (k = 1, 2, ...) is line k + 1.
line_of(k) == k + 1

RECURSIVE match_loop(_, _, _, _, _)
match_loop(data, g_idx, samples_set, k, acc) ==
  IF k > Len(data) THEN acc
  ELSE match_loop(data, g_idx, samples_set, k + 1,
         IF sample_text(data[k], g_idx) \in samples_set
         THEN [rows |-> Append(acc.rows, data[k]), lines |-> Append(acc.lines, line_of(k))]
         ELSE acc)

match(data, samples_set) ==
  match_loop(data, _col_to_index(ID_COL), samples_set, 1, [rows |-> <<>>, lines |-> <<>>])

(* --------------------------- export builder ---------------------------- *)
norm_row_fixed_pad(r, header) == r \o Repeat(<<>>, Len(header))

norm_row(r, header) == r \o Repeat(<<>>, Len(header) - Len(r))

\* pd.DataFrame(norm_rows, columns=header) raises when a row is wider than the header.
dataframe_ok(rows, header) == \A i \in 1..Len(rows) : Len(rows[i]) = Len(header)

(* --------------------------- sample selector --------------------------- *)
add_sample_reset(list, input) ==
  LET code == strip(input)
  IN IF code = <<>> THEN <<>>
     ELSE IF code \in Range(list) THEN list ELSE Append(list, code)

add_sample(list, input) ==
  LET code == strip(input)
  IN IF code # <<>> /\ code \notin Range(list) THEN Append(list, code) ELSE list

guard_always(list) == TRUE

\* "if gerar and st.session_state['samples']"
export_guard(list) == list # <<>>

(* ------------------------------ inputs --------------------------------- *)
Inputs == { <<"A">>, <<" ", "A", " ">>, <<"B">>, <<"\t", "B">>, <<>>, <<" ">> }

Dates == { <<"0","5","/","1","1","/","2","0","2","6">> }

Fails == {"none", "status", "date"}

MkRow(id, n) ==
  [i \in 1..n |-> IF i = 7 THEN id ELSE IF i = n THEN <<"x">> ELSE <<>>]

\* A row too short to have column G, a row whose code is "A", a row whose code
\* needs trimming, and a row whose code is not scanned but whose column H is.
RowTemplates ==
  { <<<<"x">>>>, MkRow(<<"A">>, 7), MkRow(<<" ", "B", " ">>, 8),
    [MkRow(<<"a">>, 33) EXCEPT ![8] = <<"A">>] }

Headers == { Repeat(<<"h">>, 8), Repeat(<<"h">>, 33) }

Tables ==
  { <<>> } \cup
  UNION { { <<h>> \o d : d \in [1..n -> RowTemplates] } : h \in Headers, n \in 0..MaxRows }

(* ------------------------------ actions -------------------------------- *)
NoRun ==
  /\ fetched' = <<>> /\ selected_rows' = <<>> /\ lines_idx' = <<>> /\ today' = <<>>
  /\ norm_rows' = <<>> /\ calls' = <<>> /\ report' = "none" /\ download' = <<>>

Init ==
  /\ samples = <<>> /\ current_input = <<>>
  /\ sheet \in Tables
  /\ event = "init" /\ typed = <<>>
  /\ fetched = <<>> /\ selected_rows = <<>> /\ lines_idx = <<>> /\ today = <<>>
  /\ norm_rows = <<>> /\ calls = <<>> /\ report = "none" /\ download = <<>>
  /\ arg_col = <<>> /\ ret_idx = 0 /\ pc_col = "idle"

\* on_change of the text input: _add_sample, then the script reruns with gerar = False.
Scan(input) ==
  /\ samples' = add_sample(samples, input)
  /\ current_input' = <<>>
  /\ event' = "scan" /\ typed' = input
  /\ NoRun
  /\ UNCHANGED <<sheet, arg_col, ret_idx, pc_col>>

\* "Limpar lista"
Clear ==
  /\ samples' = <<>>
  /\ event' = "clear" /\ typed' = <<>>
  /\ NoRun
  /\ UNCHANGED <<current_input, sheet, arg_col, ret_idx, pc_col>>

Run(rep, cs, table, f, m, now, nr, dl) ==
  /\ report' = rep /\ calls' = cs /\ sheet' = table /\ fetched' = f
  /\ selected_rows' = m.rows /\ lines_idx' = m.lines /\ today' = now
  /\ norm_rows' = nr /\ download' = dl

NoMatch == [rows |-> <<>>, lines |-> <<>>]

\* "Gerar planilha"
Export(now, fail) ==
  /\ event' = "export" /\ typed' = <<>>
  /\ UNCHANGED <<samples, current_input, arg_col, ret_idx, pc_col>>
  /\ IF ~export_guard(samples)
     THEN Run("error_empty_list", <<>>, sheet, <<>>, NoMatch, <<>>, <<>>, <<>>)
     ELSE
       LET sheet_rows == fetch_sheet IN
       IF sheet_rows = <<>>
       THEN Run("error_empty_sheet", <<GetCall>>, sheet, sheet_rows, NoMatch, <<>>, <<>>, <<>>)
       ELSE
         LET header == Head(sheet_rows)
             data == Tail(sheet_rows)
             samples_set == {strip(samples[i]) : i \in 1..Len(samples)}
             m == match(data, samples_set)
         IN
         IF m.rows = <<>>
         THEN Run("warning_no_match", <<GetCall>>, sheet, sheet_rows, m, <<>>, <<>>, <<>>)
         ELSE
           LET u == update_status(sheet, m.lines, now, fail)
               nr == [i \in 1..Len(m.rows) |-> norm_row(m.rows[i], header)]
           IN
           IF ~u.ok
           THEN Run("error_update", <<GetCall>> \o u.calls, u.table, sheet_rows, m, now,
                    <<>>, <<>>)
           ELSE IF ~dataframe_ok(nr, header)
           THEN Run("exception", <<GetCall>> \o u.calls, u.table, sheet_rows, m, now,
                    nr, <<>>)
           ELSE Run("success", <<GetCall>> \o u.calls, u.table, sheet_rows, m, now,
                    nr, <<[today |-> now, header |-> header, rows |-> nr]>>)

Next ==
  \/ \E input \in Inputs : Scan(input)
  \/ Clear
  \/ \E now \in Dates, fail \in Fails : Export(now, fail)

Spec == Init /\ [][Next]_vars

(* ------------------- _col_to_index as a called function ---------------- *)
Letters == Range(UpperLetters) \cup Range(LowerLetters)

\* Every one-letter and two-letter column name, in either case.
ColNames == { <<a>> : a \in Letters } \cup { <<a, b>> : a \in Letters, b \in Letters }

InitCol ==
  /\ samples = <<>> /\ current_input = <<>>
  /\ sheet = <<>>
  /\ event = "init" /\ typed = <<>>
  /\ fetched = <<>> /\ selected_rows = <<>> /\ lines_idx = <<>> /\ today = <<>>
  /\ norm_rows = <<>> /\ calls = <<>> /\ report = "none" /\ download = <<>>
  /\ arg_col \in ColNames /\ ret_idx = 0 /\ pc_col = "call"

CallColToIndex ==
  /\ pc_col = "call"
  /\ ret_idx' = _col_to_index(arg_col)
  /\ pc_col' = "return"
  /\ UNCHANGED <<samples, current_input, sheet, event, typed, fetched, selected_rows,
                 lines_idx, today, norm_rows, calls, report, download, arg_col>>

NextCol == CallColToIndex

SpecCol == InitCol /\ [][NextCol]_vars

(* ============================== claims ================================= *)

UpperColNames ==
  { <<a>> : a \in Range(UpperLetters) } \cup
  { <<a, b>> : a \in Range(UpperLetters), b \in Range(UpperLetters) }

LetterPos(c) == CHOOSE i \in 1..26 : UpperLetters[i] = c

upper_name(name) == [i \in 1..Len(name) |-> upper(name[i])]

\* Spreadsheet column order: A, B, ..., Z, AA, AB, ..., ZZ (shorter first, then
\* letter by letter).
ColBefore(a, b) ==
  \/ Len(a) < Len(b)
  \/ /\ Len(a) = Len(b)
     /\ \E i \in 1..Len(a) :
          /\ LetterPos(a[i]) < LetterPos(b[i])
          /\ \A j \in 1..(i - 1) : a[j] = b[j]

\* Position of a column in the spreadsheet's column order, A = 1.
ColOrdinal(name) == 1 + Cardinality({ n \in UpperColNames : ColBefore(n, name) })

\* C9: for every one- and two-letter name, in either case, _col_to_index returns
\* the spreadsheet column ordinal minus one (A -> 0, Z -> 25, AA -> 26, AB -> 27),
\* and the mapping is order-preserving, hence injective, over those names.
C9_ColToIndex ==
  pc_col = "return" =>
    /\ ret_idx = ColOrdinal(upper_name(arg_col)) - 1
    /\ (upper_name(arg_col) = <<"A">> => ret_idx = 0)
    /\ (upper_name(arg_col) = <<"Z">> => ret_idx = 25)
    /\ (upper_name(arg_col) = <<"A", "A">> => ret_idx = 26)
    /\ (upper_name(arg_col) = <<"A", "B">> => ret_idx = 27)
    /\ \A other \in UpperColNames :
         /\ (ColBefore(other, upper_name(arg_col)) => _col_to_index(other) < ret_idx)
         /\ (_col_to_index(other) = ret_idx => other = upper_name(arg_col))

C9_Witness == pc_col = "return" /\ arg_col = <<"a", "B">> /\ ret_idx = 27

(* ----------------------- vocabulary of the claims ---------------------- *)
Trimmed(s) == s = <<>> \/ (s[1] \notin Whitespace /\ s[Len(s)] \notin Whitespace)

\* code is raw without its leading and trailing whitespace
IsTrimOf(code, raw) ==
  /\ Trimmed(code)
  /\ \E i \in 0..Len(raw) : \E j \in i..Len(raw) :
       /\ code = SubSeq(raw, i + 1, j)
       /\ \A k \in 1..i : raw[k] \in Whitespace
       /\ \A k \in (j + 1)..Len(raw) : raw[k] \in Whitespace

TrimOf(raw) ==
  CHOOSE code \in { SubSeq(raw, i + 1, j) : i \in 0..Len(raw), j \in 0..Len(raw) } :
    IsTrimOf(code, raw)

NoDuplicates(s) == \A i, j \in 1..Len(s) : s[i] = s[j] => i = j

IdCell(row) == TrimOf(Cell(row, A1Column(ID_COL)))

StatusCell(row) == Cell(row, A1Column(STATUS_COL))

DateCell(row) == Cell(row, A1Column(DATE_COL))

\* update_status returned normally in the last export attempt
UpdateCompleted == report \in {"success", "exception"}

MatchRan == report \in {"warning_no_match", "error_update", "success", "exception"}

Updates == { i \in 1..Len(calls) : calls[i].op = "update" }

(* ------------------------------- C1 ------------------------------------ *)
\* C1: after an export attempt in which update_status completes without a remote
\* failure, every line in lines_idx holds STATUS_VAL in the status column and
\* today's date in the date column.
C1_EveryMatchedLineUpdated ==
  UpdateCompleted =>
    \A i \in 1..Len(lines_idx) :
      /\ StatusCell(sheet[lines_idx[i]]) = STATUS_VAL
      /\ DateCell(sheet[lines_idx[i]]) = today

NoRowMatches(table, list) ==
  \A k \in 2..Len(table) : IdCell(table[k]) \notin Range(list)

\* C3: an export triggered with a non-empty sample list against a table none of
\* whose data rows has its trimmed identifier cell in the sample set selects
\* nothing, issues no column write, leaves the remote table as it was and offers
\* no artifact; when the fetch returned a table, the no-matches warning is
\* what is reported.
C3_NoMatchStops ==
  [][ (event' = "export" /\ samples # <<>> /\ NoRowMatches(sheet, samples)) =>
        /\ selected_rows' = <<>> /\ lines_idx' = <<>>
        /\ \A i \in 1..Len(calls') : calls'[i].op # "update"
        /\ sheet' = sheet
        /\ norm_rows' = <<>> /\ download' = <<>>
        /\ (sheet # <<>> => report' = "warning_no_match") ]_vars

C3_Witness ==
  /\ event = "export" /\ report = "warning_no_match"
  /\ samples # <<>> /\ Len(fetched) > 2
  /\ calls = <<GetCall>> /\ download = <<>>

(* ------------------------------- C4 ------------------------------------ *)
\* C4: an export triggered while the sample list is empty reports the empty-list
\* error, makes no remote call, produces no artifact and changes neither the
\* sample list nor the remote table.
C4_EmptyListError ==
  [][ (event' = "export" /\ samples = <<>>) =>
        /\ report' = "error_empty_list"
        /\ calls' = <<>>
        /\ download' = <<>> /\ norm_rows' = <<>>
        /\ samples' = samples /\ current_input' = current_input
        /\ sheet' = sheet ]_vars

C4_Witness ==
  /\ event = "export" /\ report = "error_empty_list"
  /\ samples = <<>> /\ calls = <<>> /\ Len(sheet) > 1

(* ------------------------------- C5 ------------------------------------ *)
\* C5: an export attempt never changes the sample list, whatever its outcome, and
\* the only event that makes a non-empty list empty is the clear action.
C5_SamplesPersist ==
  [][ /\ (event' = "export" => samples' = samples)
      /\ ((samples # <<>> /\ samples' = <<>>) => event' = "clear") ]_vars

C5_Witness ==
  /\ event = "export" /\ report = "error_update"
  /\ Len(samples) = 2

(* ------------------------------- C6 ------------------------------------ *)
\* C6: a scan leaves the list alone when the trimmed input is empty or already
\* present and otherwise appends the trimmed input at the end; the list never
\* holds a duplicate, an empty string or an untrimmed string.
C6_AddSample ==
  [][ /\ NoDuplicates(samples')
      /\ \A i \in 1..Len(samples') : samples'[i] # <<>> /\ Trimmed(samples'[i])
      /\ (event' = "scan" =>
            LET code == TrimOf(typed')
            IN IF code = <<>> \/ code \in Range(samples)
               THEN samples' = samples
               ELSE samples' = Append(samples, code)) ]_vars

\* the last scan was " A " while "A" was already first in the list
C6_Witness ==
  /\ event = "scan" /\ typed = <<" ", "A", " ">>
  /\ samples = << <<"A">>, <<"B">> >>

(* ------------------------------- C7 ------------------------------------ *)
\* C7: the match result is exactly the data rows whose trimmed identifier cell is
\* in the sample set, each paired with its line (first data row = line 2), in
\* table order, whatever the order of the sample list.
C7_MatchResult ==
  MatchRan =>
    LET matched == { l \in 2..Len(fetched) : IdCell(fetched[l]) \in Range(samples) }
    IN
    /\ Range(lines_idx) = matched
    /\ \A i, j \in 1..Len(lines_idx) : i < j => lines_idx[i] < lines_idx[j]
    /\ Len(selected_rows) = Len(lines_idx)
    /\ \A i \in 1..Len(lines_idx) : selected_rows[i] = fetched[lines_idx[i]]
    /\ (Len(fetched) >= 2 /\ IdCell(fetched[2]) \in Range(samples) => lines_idx[1] = 2)

\* scanned B then A; the table has A on line 2 and B on line 4
C7_Witness ==
  /\ report = "success"
  /\ samples = << <<"B">>, <<"A">> >>
  /\ lines_idx = <<2, 4>>
  /\ IdCell(selected_rows[1]) = <<"A">> /\ IdCell(selected_rows[2]) = <<"B">>

(* ------------------------------- C8 ------------------------------------ *)
\* C8: a failed remote write is reported and ends the attempt: the failed call is
\* the last call issued, each column is written at most once, what the status
\* write stored stays stored, and no artifact is offered.
C8_WriteFailureAborts ==
  /\ (\E i \in 1..Len(calls) : calls[i].failed) <=> report = "error_update"
  /\ report = "error_update" =>
       /\ download = <<>> /\ norm_rows = <<>>
       /\ \A i \in 1..Len(calls) : calls[i].failed <=> i = Len(calls)
       /\ \A i, j \in Updates : calls[i].col = calls[j].col => i = j
       /\ (calls[Len(calls)].col = STATUS_COL => Len(calls) = 2 /\ sheet = fetched)
       /\ (calls[Len(calls)].col = DATE_COL =>
             /\ Len(calls) = 3 /\ calls[2].col = STATUS_COL
             /\ StatusCell(sheet[lines_idx[1]]) = STATUS_VAL
             /\ \A l \in 1..Len(sheet) : DateCell(sheet[l]) = DateCell(fetched[l]))

C8_Witness ==
  /\ report = "error_update" /\ Len(calls) = 3
  /\ StatusCell(sheet[lines_idx[1]]) = STATUS_VAL
  /\ StatusCell(fetched[lines_idx[1]]) = <<>>

(* ------------------------------- C10 ----------------------------------- *)
\* C10: padding a selected row shorter than the header gives a row of exactly the
\* header's length whose leading cells are the original ones and whose added
\* cells are empty; a row at header length is unchanged; padding twice equals
\* padding once.
C10_Padding ==
  UpdateCompleted =>
    LET header == Head(fetched)
    IN
    /\ Len(norm_rows) = Len(selected_rows)
    /\ \A i \in 1..Len(selected_rows) :
         LET r == selected_rows[i]
             p == norm_rows[i]
         IN
         /\ (Len(r) < Len(header) =>
               /\ Len(p) = Len(header)
               /\ SubSeq(p, 1, Len(r)) = r
               /\ \A j \in (Len(r) + 1)..Len(p) : p[j] = <<>>)
         /\ (Len(r) = Len(header) => p = r)
         /\ norm_row(p, header) = p
    /\ (report = "success" => download[1].rows = norm_rows /\ download[1].header = header)

C10_Witness ==
  /\ report = "success"
  /\ \E i \in 1..Len(selected_rows) : Len(selected_rows[i]) < Len(Head(fetched))
  /\ \E i \in 1..Len(selected_rows) : Len(selected_rows[i]) = Len(Head(fetched))
====
